---- MODULE Spec2Model ----
(***************************************************************************)
(* Model of scripts/generate-og-images.js (src/unnamed/part_003): the      *)
(* batch that walks the documentation tree and writes one OG image per     *)
(* page.  Strings are sequences of one-character strings, paths under      *)
(* CONTENT_DIR are sequences of entry names, paths under OUTPUT_DIR are    *)
(* strings relative to OUTPUT_DIR.                                         *)
(***************************************************************************)
EXTENDS Integers, Sequences, FiniteSets, TLC

VARIABLES
    rootExists,   \* CONTENT_DIR exists on disk
    tree,         \* the files under CONTENT_DIR, each a sequence of names
    docs,         \* per file of tree: the contents readFileSync may return
    stale,        \* the files under OUTPUT_DIR before the first run
    mayFail,      \* the steps whose I/O may fail in this environment
    run,          \* 1 in the first run of the script, 2 in a run after it
    first,        \* what the first run left behind, once a second one started
    outDirs,      \* directories that exist at or under OUTPUT_DIR
    outFiles,     \* files under OUTPUT_DIR: set of [path, doc, image, complete]
    pc,           \* position of main()
    files,        \* const files of main
    idx,          \* number of loop iterations entered (current file = files[idx])
    generated,    \* let generated
    errors,       \* let errors
    cur,          \* the locals of the loop body
    log,          \* console lines, in order
    exitCode,     \* process exit code, -1 while the process runs
    fetchLog,     \* one entry per fetch() issued: the iteration it was issued in
    fontFailed,   \* a fetch() of the font has been rejected
    attempts,     \* per file index: how often its iteration was entered
    threw,        \* file indexes whose iteration raised an exception
    hdrFailed,    \* file indexes whose matter() call raised
    writes,       \* one entry per writeFileSync issued:
                  \* [doc, path, image, result]
    written,      \* file indexes whose writeFileSync returned
    discoveries,  \* calls of findMarkdownFiles(CONTENT_DIR) by main
    tText,        \* truncate: argument text
    tMax,         \* truncate: argument maxLength
    tOut,         \* truncate: returned value
    tAgain,       \* truncate: value returned for truncate(tOut, tMax)
    tpc,          \* truncate: "call", "ret" after the call, "ret2" after
                  \* the call on the returned value
    gPath,        \* getSlug: the file, as the names below CONTENT_DIR
    gSlug,        \* getSlug: returned value
    gSection,     \* getSection: value returned for getSection(gSlug)
    gpc,          \* getSlug: "call", "slug" after getSlug returned,
                  \* "section" after getSection returned
    cTitle,       \* createImageTemplate: argument title
    cDescription, \* createImageTemplate: argument description
    cSection,     \* createImageTemplate: argument section
    cTree,        \* createImageTemplate: returned tree
    cpc           \* createImageTemplate: "call", "ret" after the call

vars == <<rootExists, tree, docs, stale, mayFail, run, first, outDirs,
          outFiles, pc, files, idx, generated, errors, cur, log, exitCode, fetchLog, fontFailed, attempts, threw,
          hdrFailed, writes, written, discoveries, tText, tMax, tOut, tAgain,
          tpc, gPath, gSlug, gSection, gpc, cTitle, cDescription, cSection,
          cTree, cpc>>

\* the file system and the network as the script finds them
envVars == <<rootExists, tree, docs, stale, mayFail>>

runVars == <<run, first>>

batchVars == <<envVars, runVars, outDirs, outFiles, pc, files, idx, generated,
               errors, cur, log, exitCode, fetchLog, fontFailed, attempts,
               threw, hdrFailed, writes, written, discoveries>>

truncVars == <<tText, tMax, tOut, tAgain, tpc>>

slugVars == <<gPath, gSlug, gSection, gpc>>

tmplVars == <<cTitle, cDescription, cSection, cTree, cpc>>

\* the variables of the calls of single functions
pureVars == <<truncVars, slugVars, tmplVars>>

----------------------------------------------------------------------------
(* Bounds of the model *)

\* most markdown files in the content tree
MaxDocs == 2

\* longest text handed to truncate in SpecTruncate
MaxLen == 6

\* largest budget handed to truncate in SpecTruncate
MaxBudget == 5

\* most files in the tree handed to findMarkdownFiles in SpecWalk
MaxEntries == 4

----------------------------------------------------------------------------
(* Strings *)

EndsWith(s, suf) ==
    /\ Len(s) >= Len(suf)
    /\ SubSeq(s, Len(s) - Len(suf) + 1, Len(s)) = suf

DropLast(s, n) == SubSeq(s, 1, Len(s) - n)

\* String.prototype.slice(start, end) for start >= 0: a negative end counts
\* from the end of the string, an end past the string is the string's end.
Slice(s, start, end) ==
    LET e0 == IF end < 0 THEN Len(s) + end ELSE end
        e  == IF e0 < 0 THEN 0 ELSE IF e0 > Len(s) THEN Len(s) ELSE e0
    IN  IF e <= start THEN <<>> ELSE SubSeq(s, start + 1, e)

Ellipsis == <<".", ".", ".">>

MD == <<".", "m", "d">>

MDX == <<".", "m", "d", "x">>

INDEX == <<"i", "n", "d", "e", "x">>

PNG == <<".", "p", "n", "g">>

SLASH == <<"/">>

\* path.join of the names of a path: the names separated by "/"
RECURSIVE JoinNames(_)
JoinNames(p) ==
    IF p = <<>> THEN <<>>
    ELSE IF Len(p) = 1 THEN p[1]
    ELSE p[1] \o SLASH \o JoinNames(Tail(p))

\* String.prototype.split('/')
RECURSIVE Split(_)
Split(s) ==
    IF \A k \in 1..Len(s) : s[k] # "/" THEN <<s>>
    ELSE LET k == CHOOSE k \in 1..Len(s) :
                      s[k] = "/" /\ \A j \in 1..(k - 1) : s[j] # "/"
         IN  <<SubSeq(s, 1, k - 1)>> \o Split(SubSeq(s, k + 1, Len(s)))

\* String.prototype.replace(/-/g, ' ')
HyphensToSpaces(s) == [k \in 1..Len(s) |-> IF s[k] = "-" THEN " " ELSE s[k]]

\* path.dirname of a path relative to OUTPUT_DIR; <<>> is OUTPUT_DIR itself
Dirname(p) ==
    IF \A k \in 1..Len(p) : p[k] # "/" THEN <<>>
    ELSE LET k == CHOOSE k \in 1..Len(p) :
                      p[k] = "/" /\ \A j \in (k + 1)..Len(p) : p[j] # "/"
         IN  SubSeq(p, 1, k - 1)

\* a directory and its ancestors up to OUTPUT_DIR (mkdirSync recursive)
RECURSIVE Ancestors(_)
Ancestors(d) == IF d = <<>> THEN {<<>>} ELSE {d} \cup Ancestors(Dirname(d))

----------------------------------------------------------------------------
(* Pure functions of the script *)

\* function truncate(text, maxLength), a faulty variant: the slice is taken
\* from index 1 and leaves the ellipsis no room
truncateOneBased(text, maxLength) ==
    IF Len(text) <= maxLength THEN text
    ELSE Slice(text, 1, maxLength) \o Ellipsis

\* function truncate(text, maxLength), a faulty variant: the boundary is truncated too
truncateStrict(text, maxLength) ==
    IF Len(text) < maxLength THEN text
    ELSE Slice(text, 0, maxLength - 3) \o Ellipsis

\* function truncate(text, maxLength)
truncate(text, maxLength) ==
    IF Len(text) <= maxLength THEN text
    ELSE Slice(text, 0, maxLength - 3) \o Ellipsis

\* function getSlug(filePath); filePath is given by its names under CONTENT_DIR
getSlug(filePath) ==
    LET relativePath == JoinNames(filePath)
        s1 == IF EndsWith(relativePath, MDX) THEN DropLast(relativePath, 4)
              ELSE IF EndsWith(relativePath, MD) THEN DropLast(relativePath, 3)
              ELSE relativePath
        s2 == IF EndsWith(s1, INDEX) THEN DropLast(s1, 5) ELSE s1
        s3 == IF EndsWith(s2, SLASH) THEN DropLast(s2, 1) ELSE s2
    IN  s3

\* const outputFileName of main, a faulty variant: the empty slug has no name of its own
outputFileNameBare(slug) == slug \o PNG

\* const outputFileName of main, a faulty variant: the directories of the slug are lost
outputFileNameFlat(slug) ==
    IF slug # <<>> THEN Split(slug)[Len(Split(slug))] \o PNG ELSE INDEX \o PNG

\* const outputFileName of main; the path is relative to OUTPUT_DIR
outputFileName(slug) ==
    IF slug # <<>> THEN slug \o PNG ELSE INDEX \o PNG

----------------------------------------------------------------------------
(* JavaScript values: a string, a number, undefined or null *)

Str(s) == [t |-> "str", s |-> s, n |-> 0]

Num(n) == [t |-> "num", s |-> <<>>, n |-> n]

Undefined == [t |-> "undef", s |-> <<>>, n |-> 0]

Null == [t |-> "null", s |-> <<>>, n |-> 0]

\* ToBoolean: the empty string, 0, undefined and null are falsy
Truthy(v) == (v.t = "str" /\ v.s # <<>>) \/ (v.t = "num" /\ v.n # 0)

\* the || of lines 350-351, a faulty variant: only a missing or null value
\* falls back to the default (the ?? operator)
OrElseNullish(v, d) == IF v.t \in {"undef", "null"} THEN d ELSE v

\* the || of lines 350-351
OrElse(v, d) == IF Truthy(v) THEN v ELSE d

\* function getSection(slug), a faulty variant: replace('-', ' ') without the
\* g flag replaces the first hyphen only
getSectionFirstHyphen(slug) ==
    LET parts == Split(slug)
        k == CHOOSE k \in 1..(Len(parts[1]) + 1) :
                 /\ k <= Len(parts[1]) => parts[1][k] = "-"
                 /\ \A j \in 1..(k - 1) : parts[1][j] # "-"
    IN  IF Len(parts) > 1
        THEN Str([j \in 1..Len(parts[1]) |->
                     IF j = k THEN " " ELSE parts[1][j]])
        ELSE Null

\* function getSection(slug)
getSection(slug) ==
    LET parts == Split(slug)
    IN  IF Len(parts) > 1 THEN Str(HyphensToSpaces(parts[1])) ELSE Null

\* 'LUMOS Documentation'
DefaultTitle ==
    <<"L", "U", "M", "O", "S", " ", "D", "o", "c", "u", "m", "e", "n", "t",
      "a", "t", "i", "o", "n">>

\* 'Type-safe schema language for Solana development'
DefaultDescription ==
    <<"T", "y", "p", "e", "-", "s", "a", "f", "e", " ", "s", "c", "h", "e",
      "m", "a", " ", "l", "a", "n", "g", "u", "a", "g", "e", " ", "f", "o",
      "r", " ", "S", "o", "l", "a", "n", "a", " ", "d", "e", "v", "e", "l",
      "o", "p", "m", "e", "n", "t">>

----------------------------------------------------------------------------
(* Documents *)

\* a document without a frontmatter block
NoHeaderDoc ==
    [hdr |-> "none", title |-> Undefined, description |-> Undefined]

\* a document whose frontmatter block is not valid YAML
MalformedDoc ==
    [hdr |-> "malformed", title |-> Undefined, description |-> Undefined]

\* title: QS, description: d
FullDoc ==
    [hdr |-> "ok", title |-> Str(<<"Q", "S">>),
     description |-> Str(<<"d">>)]

\* title: 5 (a YAML number) and no description
NumTitleDoc ==
    [hdr |-> "ok", title |-> Num(5), description |-> Undefined]

\* a header with no title key and description: ''
NoTitleDoc ==
    [hdr |-> "ok", title |-> Undefined, description |-> Str(<<>>)]

DocContents == {NoHeaderDoc, MalformedDoc, FullDoc, NumTitleDoc, NoTitleDoc}

\* no document read yet
NoContent == [hdr |-> "unset", title |-> Undefined, description |-> Undefined]

NoData == [title |-> Undefined, description |-> Undefined]

\* matter(content) of gray-matter: the header's keys, {} without a header;
\* it throws on a header that is not valid YAML
matter(content) ==
    [throws |-> content.hdr = "malformed",
     data   |-> IF content.hdr = "ok"
                THEN [title |-> content.title,
                      description |-> content.description]
                ELSE NoData]

----------------------------------------------------------------------------
(* Template *)

NoTemplate ==
    [throws |-> FALSE, header |-> <<>>, titleSize |-> 0, title |-> <<>>,
     description |-> <<>>]

\* function createImageTemplate, a faulty variant: the title is cut at 64
\* characters
createImageTemplateWide(title, description, section) ==
    [throws      |-> title.t # "str" \/ description.t # "str",
     header      |-> IF Truthy(section) THEN <<Str(<<"L", "U", "M", "O", "S">>), section>>
                     ELSE <<Str(<<"L", "U", "M", "O", "S">>)>>,
     titleSize   |-> IF title.t = "str" /\ Len(title.s) > 30 THEN 52 ELSE 64,
     title       |-> IF title.t = "str" THEN truncate(title.s, 64) ELSE <<>>,
     description |-> IF description.t = "str" THEN truncate(description.s, 120)
                     ELSE <<>>]

\* function createImageTemplate, a faulty variant: the font size is chosen
\* from the length of the truncated title against the truncation budget
createImageTemplateAfterCut(title, description, section) ==
    [throws      |-> title.t # "str" \/ description.t # "str",
     header      |-> IF Truthy(section) THEN <<Str(<<"L", "U", "M", "O", "S">>), section>>
                     ELSE <<Str(<<"L", "U", "M", "O", "S">>)>>,
     titleSize   |-> IF title.t = "str" /\ Len(title.s) > 60 THEN 52 ELSE 64,
     title       |-> IF title.t = "str" THEN truncate(title.s, 60) ELSE <<>>,
     description |-> IF description.t = "str" THEN truncate(description.s, 120)
                     ELSE <<>>]

\* function createImageTemplate, a faulty variant: the header's children are
\* not filtered, a missing badge stays in the list as null
createImageTemplateNoFilter(title, description, section) ==
    [throws      |-> title.t # "str" \/ description.t # "str",
     header      |-> <<Str(<<"L", "U", "M", "O", "S">>),
                       IF Truthy(section) THEN section ELSE Null>>,
     titleSize   |-> IF title.t = "str" /\ Len(title.s) > 30 THEN 52 ELSE 64,
     title       |-> IF title.t = "str" THEN truncate(title.s, 60) ELSE <<>>,
     description |-> IF description.t = "str" THEN truncate(description.s, 120)
                     ELSE <<>>]

\* function createImageTemplate(title, description, section): the header row's
\* children, the title leaf's font size and text, the description leaf's text.
\* text.slice of a value that is not a string is a TypeError.
createImageTemplate(title, description, section) ==
    [throws      |-> title.t # "str" \/ description.t # "str",
     header      |-> IF Truthy(section) THEN <<Str(<<"L", "U", "M", "O", "S">>), section>>
                     ELSE <<Str(<<"L", "U", "M", "O", "S">>)>>,
     titleSize   |-> IF title.t = "str" /\ Len(title.s) > 30 THEN 52 ELSE 64,
     title       |-> IF title.t = "str" THEN truncate(title.s, 60) ELSE <<>>,
     description |-> IF description.t = "str" THEN truncate(description.s, 120)
                     ELSE <<>>]

----------------------------------------------------------------------------
(* The content tree and its traversal *)

IndexMd == <<"i", "n", "d", "e", "x", ".", "m", "d">>

\* the markdown files a content tree of the model is made of
CandidateFiles ==
    { <<IndexMd>>,
      <<<<"q", ".", "m", "d">>>>,
      <<<<"q", ".", "m", "d", "x">>>>,
      <<<<"g", "-", "s">>, <<"q", ".", "m", "d">>>>,
      <<INDEX, IndexMd>> }

IsPrefix(d, p) == Len(p) > Len(d) /\ SubSeq(p, 1, Len(d)) = d

\* the names readdirSync(dir) returns, in no order
Children(dir) == { p[Len(dir) + 1] : p \in { q \in tree : IsPrefix(dir, q) } }

\* statSync(fullPath).isDirectory()
IsDirectory(fullPath) == \E p \in tree : IsPrefix(fullPath, p)

\* the orders in which the file system may list a set of names
Orders(S) ==
    { f \in [1..Cardinality(S) -> S] :
        \A i, j \in 1..Cardinality(S) : i # j => f[i] # f[j] }

\* function findMarkdownFiles(dir, files): the set of the results it may
\* return, one per order in which readdirSync lists each directory
RECURSIVE findMarkdownFiles(_, _)

\* the loop of findMarkdownFiles, a faulty variant: the extension is tested
\* before isDirectory()
RECURSIVE WalkItemsExtFirst(_, _, _)
WalkItemsExtFirst(dir, items, acc) ==
    IF items = <<>> THEN {acc}
    ELSE LET item == Head(items)
             fullPath == Append(dir, item)
         IN  IF EndsWith(item, MD) \/ EndsWith(item, MDX)
             THEN WalkItemsExtFirst(dir, Tail(items), Append(acc, fullPath))
             ELSE IF IsDirectory(fullPath)
             THEN UNION { WalkItemsExtFirst(dir, Tail(items), a2) :
                            a2 \in findMarkdownFiles(fullPath, acc) }
             ELSE WalkItemsExtFirst(dir, Tail(items), acc)

\* the loop of findMarkdownFiles over the names readdirSync listed
RECURSIVE WalkItems(_, _, _)
WalkItems(dir, items, acc) ==
    IF items = <<>> THEN {acc}
    ELSE LET item == Head(items)
             fullPath == Append(dir, item)
         IN  IF IsDirectory(fullPath)
             THEN UNION { WalkItems(dir, Tail(items), a2) :
                            a2 \in findMarkdownFiles(fullPath, acc) }
             ELSE IF EndsWith(item, MD) \/ EndsWith(item, MDX)
             THEN WalkItems(dir, Tail(items), Append(acc, fullPath))
             ELSE WalkItems(dir, Tail(items), acc)

findMarkdownFiles(dir, acc) ==
    UNION { WalkItems(dir, items, acc) : items \in Orders(Children(dir)) }

\* join(OUTPUT_DIR, outputFileName) of the file at position i of files,
\* relative to OUTPUT_DIR
OutputPathOf(i) == outputFileName(getSlug(files[i]))

----------------------------------------------------------------------------
(* State of the batch *)

\* the locals of the loop body before an iteration has set them
\* (threwAt: the step of the iteration that raised, "" while none has)
NoCur ==
    [content |-> NoContent, data |-> NoData, title |-> Undefined,
     description |-> Undefined, section |-> Undefined, outputPath |-> <<>>,
     template |-> NoTemplate, threwAt |-> ""]

\* a console line: its kind, the loop iteration it belongs to (0: none) and
\* the two numbers it prints
Line(kind, doc, a, b) == [kind |-> kind, doc |-> doc, a |-> a, b |-> b]

\* the trees a content root of at most MaxDocs markdown files can hold
Trees == { t \in SUBSET CandidateFiles : Cardinality(t) <= MaxDocs }

\* no call of truncate alone
TruncIdle ==
    tText = <<>> /\ tMax = 0 /\ tOut = <<>> /\ tAgain = <<>> /\ tpc = "idle"

\* no call of getSlug and getSection alone
SlugIdle ==
    gPath = <<>> /\ gSlug = <<>> /\ gSection = Undefined /\ gpc = "idle"

\* no call of createImageTemplate alone
TmplIdle ==
    /\ cTitle = Undefined
    /\ cDescription = Undefined
    /\ cSection = Undefined
    /\ cTree = NoTemplate
    /\ cpc = "idle"

\* the single functions are not called on their own while the batch runs
PureIdle == TruncIdle /\ SlugIdle /\ TmplIdle

\* the steps of a run that do I/O and may fail for reasons outside the
\* script: mkdirSync(OUTPUT_DIR), readdirSync and statSync below an existing
\* CONTENT_DIR, readFileSync, fetch, satori, resvg, mkdirSync(outputDir),
\* writeFileSync
Steps ==
    {"mkdirOut", "discover", "read", "fetch", "satori", "resvg", "mkdir",
     "write"}

\* an image an earlier run of the script wrote
OldImage == [NoTemplate EXCEPT !.title = <<"o", "l", "d">>]

\* the files an earlier run left directly under OUTPUT_DIR, if there was
\* one: q.png and o.png
StaleFiles ==
    { [path |-> n \o PNG, doc |-> 0, image |-> OldImage, complete |-> TRUE] :
        n \in {<<"q">>, <<"o">>} }

\* nothing is known of a first run while it is the one running
NoFirst == [outFiles |-> {}, outDirs |-> {}, log |-> <<>>]

\* CONTENT_DIR and OUTPUT_DIR before the script starts
InitDisk ==
    /\ rootExists \in BOOLEAN
    /\ tree \in Trees
    /\ (~rootExists => tree = {})
    /\ outDirs \in {{}, {<<>>}}
    /\ stale \in {{}, StaleFiles}
    /\ (outDirs = {} => stale = {})
    /\ outFiles = stale

\* the process at position p with nothing done yet
ProcessAt(p) ==
    /\ run = 1
    /\ first = NoFirst
    /\ pc = p
    /\ files = <<>>
    /\ idx = 0
    /\ generated = 0
    /\ errors = 0
    /\ cur = NoCur
    /\ log = <<>>
    /\ exitCode = -1
    /\ fetchLog = <<>>
    /\ fontFailed = FALSE
    /\ attempts = <<>>
    /\ threw = {}
    /\ hdrFailed = {}
    /\ writes = <<>>
    /\ written = {}
    /\ discoveries = 0

\* the process before main() is called
InitProcess == ProcessAt("start") /\ PureIdle

\* any file may hold any content, and every step that does I/O may fail
Init ==
    /\ InitDisk
    /\ docs = [f \in tree |-> DocContents]
    /\ mayFail = Steps
    /\ InitProcess

----------------------------------------------------------------------------
(* main(), one action per step *)

\* lines 330-335, a faulty variant: mkdirSync is called without the existsSync
\* test and throws when OUTPUT_DIR exists
StartExclusive ==
    /\ pc = "start"
    /\ log' = Append(log, Line("banner", 0, 0, 0))
    /\ \/ /\ <<>> \in outDirs
          /\ outDirs' = outDirs
          /\ pc' = "rejected"
       \/ /\ <<>> \notin outDirs
          /\ outDirs' = outDirs \cup {<<>>}
          /\ pc' = "discover"
       \/ /\ <<>> \notin outDirs
          /\ "mkdirOut" \in mayFail
          /\ outDirs' = outDirs
          /\ pc' = "rejected"
    /\ UNCHANGED <<envVars, runVars, outFiles, files, idx, generated, errors,
                   cur, exitCode, fetchLog, fontFailed, attempts, threw,
                   hdrFailed, writes, written, discoveries, pureVars>>

\* lines 330-335, a faulty variant: OUTPUT_DIR is emptied before the run
StartClean ==
    /\ pc = "start"
    /\ log' = Append(log, Line("banner", 0, 0, 0))
    /\ outFiles' = {}
    /\ \/ /\ <<>> \in outDirs
          /\ outDirs' = outDirs
          /\ pc' = "discover"
       \/ /\ <<>> \notin outDirs
          /\ outDirs' = outDirs \cup {<<>>}
          /\ pc' = "discover"
       \/ /\ <<>> \notin outDirs
          /\ "mkdirOut" \in mayFail
          /\ outDirs' = outDirs
          /\ pc' = "rejected"
    /\ UNCHANGED <<envVars, runVars, files, idx, generated, errors,
                   cur, exitCode, fetchLog, fontFailed, attempts, threw,
                   hdrFailed, writes, written, discoveries, pureVars>>

\* lines 330-335: the banner, then OUTPUT_DIR is created unless it exists;
\* mkdirSync may throw, and main() then rejects
Start ==
    /\ pc = "start"
    /\ log' = Append(log, Line("banner", 0, 0, 0))
    /\ \/ /\ <<>> \in outDirs
          /\ outDirs' = outDirs
          /\ pc' = "discover"
       \/ /\ <<>> \notin outDirs
          /\ outDirs' = outDirs \cup {<<>>}
          /\ pc' = "discover"
       \/ /\ <<>> \notin outDirs
          /\ "mkdirOut" \in mayFail
          /\ outDirs' = outDirs
          /\ pc' = "rejected"
    /\ UNCHANGED <<envVars, runVars, outFiles, files, idx, generated, errors,
                   cur, exitCode, fetchLog, fontFailed, attempts, threw,
                   hdrFailed, writes, written, discoveries, pureVars>>

\* lines 338-342, a faulty variant: a failed discovery is tried again
DiscoverRetry ==
    /\ pc = "discover"
    /\ discoveries' = discoveries + 1
    /\ \/ /\ ~rootExists
          /\ pc' = IF discoveries < 2 THEN "discover" ELSE "rejected"
          /\ UNCHANGED <<files, attempts, log>>
       \/ /\ rootExists
          /\ "discover" \in mayFail
          /\ pc' = "rejected"
          /\ UNCHANGED <<files, attempts, log>>
       \/ /\ rootExists
          /\ \E fs \in findMarkdownFiles(<<>>, <<>>) :
                /\ run = 2 => fs = files
                /\ files' = fs
                /\ attempts' = [i \in 1..Len(fs) |-> 0]
                /\ log' = Append(log, Line("found", 0, Len(fs), 0))
          /\ pc' = "loop"
    /\ UNCHANGED <<envVars, runVars, outDirs, outFiles, idx, generated,
                   errors, cur, exitCode, fetchLog, fontFailed, threw,
                   hdrFailed, writes, written, pureVars>>

\* lines 338-342: findMarkdownFiles(CONTENT_DIR); readdirSync of a missing
\* root throws, and so may readdirSync of a directory or statSync of an entry
\* (lines 43, 47) anywhere below an existing root: nothing in
\* findMarkdownFiles catches, and main() rejects. Otherwise the count line and
\* the two counters.
\* A second run over the unchanged tree is listed in the order of the first.
Discover ==
    /\ pc = "discover"
    /\ discoveries' = discoveries + 1
    /\ \/ /\ ~rootExists
          /\ pc' = "rejected"
          /\ UNCHANGED <<files, attempts, log>>
       \/ /\ rootExists
          /\ "discover" \in mayFail
          /\ pc' = "rejected"
          /\ UNCHANGED <<files, attempts, log>>
       \/ /\ rootExists
          /\ \E fs \in findMarkdownFiles(<<>>, <<>>) :
                /\ run = 2 => fs = files
                /\ files' = fs
                /\ attempts' = [i \in 1..Len(fs) |-> 0]
                /\ log' = Append(log, Line("found", 0, Len(fs), 0))
          /\ pc' = "loop"
    /\ UNCHANGED <<envVars, runVars, outDirs, outFiles, idx, generated,
                   errors, cur, exitCode, fetchLog, fontFailed, threw,
                   hdrFailed, writes, written, pureVars>>

\* lines 344-346, a faulty variant: the next file is read while the catch
\* block of the file before it has not run
ReadFileEarly ==
    /\ pc \in {"loop", "catch"}
    /\ idx < Len(files)
    /\ idx' = idx + 1
    /\ attempts' = [attempts EXCEPT ![idx + 1] = @ + 1]
    /\ \/ /\ \E c \in docs[files[idx + 1]] :
                cur' = [NoCur EXCEPT !.content = c]
          /\ pc' = "parse"
          /\ threw' = threw
       \/ /\ "read" \in mayFail
          /\ cur' = [NoCur EXCEPT !.threwAt = "read"]
          /\ pc' = "catch"
          /\ threw' = threw \cup {idx + 1}
    /\ UNCHANGED <<envVars, runVars, outDirs, outFiles, files, generated,
                   errors, log, exitCode, fetchLog, fontFailed, hdrFailed,
                   writes, written, discoveries, pureVars>>

\* lines 344-346: the next file of the loop is read; readFileSync may throw
ReadFile ==
    /\ pc = "loop"
    /\ idx < Len(files)
    /\ idx' = idx + 1
    /\ attempts' = [attempts EXCEPT ![idx + 1] = @ + 1]
    /\ \/ /\ \E c \in docs[files[idx + 1]] :
                cur' = [NoCur EXCEPT !.content = c]
          /\ pc' = "parse"
          /\ threw' = threw
       \/ /\ "read" \in mayFail
          /\ cur' = [NoCur EXCEPT !.threwAt = "read"]
          /\ pc' = "catch"
          /\ threw' = threw \cup {idx + 1}
    /\ UNCHANGED <<envVars, runVars, outDirs, outFiles, files, generated,
                   errors, log, exitCode, fetchLog, fontFailed, hdrFailed,
                   writes, written, discoveries, pureVars>>

\* line 347: const { data } = matter(content)
ParseHeader ==
    /\ pc = "parse"
    /\ LET m == matter(cur.content)
       IN  \/ /\ ~m.throws
              /\ cur' = [cur EXCEPT !.data = m.data]
              /\ pc' = "compose"
              /\ UNCHANGED <<threw, hdrFailed>>
           \/ /\ m.throws
              /\ pc' = "catch"
              /\ threw' = threw \cup {idx}
              /\ hdrFailed' = hdrFailed \cup {idx}
              /\ cur' = [cur EXCEPT !.threwAt = "parse"]
    /\ UNCHANGED <<envVars, runVars, outDirs, outFiles, files, idx, generated,
                   errors, log, exitCode, fetchLog, fontFailed, attempts,
                   writes, written, discoveries, pureVars>>

\* lines 349-359: slug, title, description, section, output path, template
\* (each const is bound once, as a value)
Compose ==
    /\ pc = "compose"
    /\ \E slug \in {getSlug(files[idx])} :
       \E title \in {OrElse(cur.data.title, Str(DefaultTitle))} :
       \E description \in
              {OrElse(cur.data.description, Str(DefaultDescription))} :
       \E section \in {getSection(slug)} :
       \E outputPath \in {outputFileName(slug)} :
       \E template \in {createImageTemplate(title, description, section)} :
       \E composed \in {[cur EXCEPT !.title = title,
                                     !.description = description,
                                     !.section = section,
                                     !.outputPath = outputPath]} :
          \/ /\ ~template.throws
             /\ cur' = [composed EXCEPT !.template = template]
             /\ pc' = "fetch"
             /\ threw' = threw
          \/ /\ template.throws
             /\ cur' = [composed EXCEPT !.threwAt = "compose"]
             /\ pc' = "catch"
             /\ threw' = threw \cup {idx}
    /\ UNCHANGED <<envVars, runVars, outDirs, outFiles, files, idx, generated,
                   errors, log, exitCode, fetchLog, fontFailed, attempts,
                   hdrFailed, writes, written, discoveries, pureVars>>

\* lines 267-269 of generateImage: the font is fetched; the fetch may reject
FetchFont ==
    /\ pc = "fetch"
    /\ fetchLog' = Append(fetchLog, idx)
    /\ \/ /\ pc' = "satori"
          /\ UNCHANGED <<fontFailed, threw, cur>>
       \/ /\ "fetch" \in mayFail
          /\ pc' = "catch"
          /\ fontFailed' = TRUE
          /\ threw' = threw \cup {idx}
          /\ cur' = [cur EXCEPT !.threwAt = "fetch"]
    /\ UNCHANGED <<envVars, runVars, outDirs, outFiles, files, idx, generated,
                   errors, log, exitCode, attempts, hdrFailed, writes,
                   written, discoveries, pureVars>>

\* lines 271-294 of generateImage: satori renders the template; it may throw
RenderSvg ==
    /\ pc = "satori"
    /\ \/ /\ pc' = "resvg"
          /\ UNCHANGED <<threw, cur>>
       \/ /\ "satori" \in mayFail
          /\ pc' = "catch"
          /\ threw' = threw \cup {idx}
          /\ cur' = [cur EXCEPT !.threwAt = "satori"]
    /\ UNCHANGED <<envVars, runVars, outDirs, outFiles, files, idx, generated,
                   errors, log, exitCode, fetchLog, fontFailed, attempts,
                   hdrFailed, writes, written, discoveries, pureVars>>

\* lines 296-304 of generateImage, a faulty variant: an exception of resvg is
\* noted and the directory is created nevertheless
RasterizeLenient ==
    /\ pc = "resvg"
    /\ \/ /\ pc' = "mkdir"
          /\ UNCHANGED <<threw, cur>>
       \/ /\ "resvg" \in mayFail
          /\ pc' = "mkdir"
          /\ threw' = threw \cup {idx}
          /\ cur' = [cur EXCEPT !.threwAt = "resvg"]
    /\ UNCHANGED <<envVars, runVars, outDirs, outFiles, files, idx, generated,
                   errors, log, exitCode, fetchLog, fontFailed, attempts,
                   hdrFailed, writes, written, discoveries, pureVars>>

\* lines 296-304 of generateImage: resvg rasterizes the svg; it may throw
Rasterize ==
    /\ pc = "resvg"
    /\ \/ /\ pc' = "mkdir"
          /\ UNCHANGED <<threw, cur>>
       \/ /\ "resvg" \in mayFail
          /\ pc' = "catch"
          /\ threw' = threw \cup {idx}
          /\ cur' = [cur EXCEPT !.threwAt = "resvg"]
    /\ UNCHANGED <<envVars, runVars, outDirs, outFiles, files, idx, generated,
                   errors, log, exitCode, fetchLog, fontFailed, attempts,
                   hdrFailed, writes, written, discoveries, pureVars>>

\* lines 307-310 of generateImage, a faulty variant: a file found at the
\* output path is removed before the write
EnsureDirUnlink ==
    /\ pc = "mkdir"
    /\ outFiles' = { g \in outFiles : g.path # cur.outputPath }
    /\ LET outputDir == Dirname(cur.outputPath)
       IN  \/ /\ outputDir \in outDirs
              /\ pc' = "write"
              /\ UNCHANGED <<outDirs, threw, cur>>
           \/ /\ outputDir \notin outDirs
              /\ outDirs' = outDirs \cup Ancestors(outputDir)
              /\ pc' = "write"
              /\ UNCHANGED <<threw, cur>>
           \/ /\ outputDir \notin outDirs
              /\ "mkdir" \in mayFail
              /\ pc' = "catch"
              /\ threw' = threw \cup {idx}
              /\ cur' = [cur EXCEPT !.threwAt = "mkdir"]
              /\ outDirs' = outDirs
    /\ UNCHANGED <<envVars, runVars, files, idx, generated, errors,
                   log, exitCode, fetchLog, fontFailed, attempts,
                   hdrFailed, writes, written, discoveries, pureVars>>

\* lines 307-310 of generateImage: the output file's directory is created
\* unless it exists; mkdirSync may throw
EnsureDir ==
    /\ pc = "mkdir"
    /\ LET outputDir == Dirname(cur.outputPath)
       IN  \/ /\ outputDir \in outDirs
              /\ pc' = "write"
              /\ UNCHANGED <<outDirs, threw, cur>>
           \/ /\ outputDir \notin outDirs
              /\ outDirs' = outDirs \cup Ancestors(outputDir)
              /\ pc' = "write"
              /\ UNCHANGED <<threw, cur>>
           \/ /\ outputDir \notin outDirs
              /\ "mkdir" \in mayFail
              /\ pc' = "catch"
              /\ threw' = threw \cup {idx}
              /\ cur' = [cur EXCEPT !.threwAt = "mkdir"]
              /\ outDirs' = outDirs
    /\ UNCHANGED <<envVars, runVars, outFiles, files, idx, generated, errors,
                   log, exitCode, fetchLog, fontFailed, attempts,
                   hdrFailed, writes, written, discoveries, pureVars>>

\* the files under OUTPUT_DIR after a write, a faulty variant: the write
\* leaves no other file in place
PutFileOnly(p, f) == {f}

\* the files under OUTPUT_DIR after a write, a faulty variant: a file that
\* exists at the path is kept
PutFileKeep(p, f) ==
    IF \E g \in outFiles : g.path = p THEN outFiles ELSE outFiles \cup {f}

\* the files under OUTPUT_DIR after a write to path p left file f there
PutFile(p, f) == { g \in outFiles : g.path # p } \cup {f}

\* line 312 of generateImage, a faulty variant: the write is skipped
WriteFileSkip ==
    /\ pc = "write"
    /\ pc' = "success"
    /\ UNCHANGED <<envVars, runVars, outDirs, outFiles, files, idx, generated,
                   errors, cur, log, exitCode, fetchLog, fontFailed, attempts,
                   threw, hdrFailed, writes, written, discoveries, pureVars>>

\* line 312 of generateImage: writeFileSync(outputPath, pngBuffer). It opens
\* the path truncating it, so a write that throws leaves the path as it was
\* (the open failed) or holding an incomplete file.
WriteFile ==
    /\ pc = "write"
    /\ LET w(result) == [doc |-> idx, path |-> cur.outputPath,
                         image |-> cur.template, result |-> result]
           f(complete) == [path |-> cur.outputPath, doc |-> idx,
                           image |-> cur.template, complete |-> complete]
       IN  \/ /\ writes' = Append(writes, w("ok"))
              /\ outFiles' = PutFile(cur.outputPath, f(TRUE))
              /\ written' = written \cup {idx}
              /\ pc' = "success"
              /\ UNCHANGED <<threw, cur>>
           \/ /\ "write" \in mayFail
              /\ writes' = Append(writes, w("unchanged"))
              /\ outFiles' = outFiles
              /\ pc' = "catch"
              /\ threw' = threw \cup {idx}
              /\ cur' = [cur EXCEPT !.threwAt = "write"]
              /\ written' = written
           \/ /\ "write" \in mayFail
              /\ writes' = Append(writes, w("partial"))
              /\ outFiles' = PutFile(cur.outputPath, f(FALSE))
              /\ pc' = "catch"
              /\ threw' = threw \cup {idx}
              /\ cur' = [cur EXCEPT !.threwAt = "write"]
              /\ written' = written
    /\ UNCHANGED <<envVars, runVars, outDirs, files, idx, generated, errors,
                   log, exitCode, fetchLog, fontFailed, attempts,
                   hdrFailed, discoveries, pureVars>>

\* lines 362-363: the success line, generated++
LogSuccess ==
    /\ pc = "success"
    /\ log' = Append(log, Line("ok", idx, 0, 0))
    /\ generated' = generated + 1
    /\ cur' = NoCur
    /\ pc' = "loop"
    /\ UNCHANGED <<envVars, runVars, outDirs, outFiles, files, idx, errors,
                   exitCode, fetchLog, fontFailed, attempts, threw, hdrFailed,
                   writes, written, discoveries, pureVars>>

\* lines 364-367, a faulty variant: the catch block sends the document
\* through the body again, from the parse on
CatchErrorRedo ==
    /\ pc = "catch"
    /\ pc' = "parse"
    /\ UNCHANGED <<envVars, runVars, outDirs, outFiles, files, idx, generated,
                   errors, cur, log, exitCode, fetchLog, fontFailed, attempts,
                   threw, hdrFailed, writes, written, discoveries, pureVars>>

\* lines 364-367, a faulty variant: the exception is not caught and main() rejects
CatchErrorAbort ==
    /\ pc = "catch"
    /\ cur' = NoCur
    /\ pc' = "rejected"
    /\ UNCHANGED <<envVars, runVars, outDirs, outFiles, files, idx, generated,
                   errors, log, exitCode, fetchLog, fontFailed, attempts,
                   threw, hdrFailed, writes, written, discoveries, pureVars>>

\* lines 364-367, a faulty variant: the failed document is tried a second time
CatchErrorRetry ==
    /\ pc = "catch"
    /\ log' = Append(log, Line("err", idx, 0, 0))
    /\ errors' = errors + 1
    /\ idx' = IF attempts[idx] < 2 THEN idx - 1 ELSE idx
    /\ cur' = NoCur
    /\ pc' = "loop"
    /\ UNCHANGED <<envVars, runVars, outDirs, outFiles, files, generated,
                   exitCode, fetchLog, fontFailed, attempts, threw, hdrFailed,
                   writes, written, discoveries, pureVars>>

\* lines 364-367: the catch block: the error line, errors++
CatchError ==
    /\ pc = "catch"
    /\ log' = Append(log, Line("err", idx, 0, 0))
    /\ errors' = errors + 1
    /\ idx' = idx
    /\ cur' = NoCur
    /\ pc' = "loop"
    /\ UNCHANGED <<envVars, runVars, outDirs, outFiles, files, generated,
                   exitCode, fetchLog, fontFailed, attempts, threw, hdrFailed,
                   writes, written, discoveries, pureVars>>

\* lines 370-371: after the loop, the summary line and the output line
Summary ==
    /\ pc = "loop"
    /\ idx = Len(files)
    /\ log' = log \o <<Line("summary", 0, generated, errors),
                       Line("output", 0, 0, 0)>>
    /\ pc' = "resolved"
    /\ UNCHANGED <<envVars, runVars, outDirs, outFiles, files, idx, generated,
                   errors, cur, exitCode, fetchLog, fontFailed, attempts,
                   threw, hdrFailed, writes, written, discoveries, pureVars>>

\* line 374, a faulty variant: the process fails when a document failed
ProcessExitStrict ==
    /\ pc \in {"resolved", "rejected"}
    /\ log' = IF pc = "rejected" THEN Append(log, Line("fatal", 0, 0, 0))
              ELSE log
    /\ exitCode' = IF errors > 0 THEN 1 ELSE 0
    /\ pc' = "exited"
    /\ UNCHANGED <<envVars, runVars, outDirs, outFiles, files, idx, generated,
                   errors, cur, fetchLog, fontFailed, attempts, threw,
                   hdrFailed, writes, written, discoveries, pureVars>>

\* line 374, a faulty variant: a rejection of main() ends the process with
\* exit code 1
ProcessExitFatal ==
    /\ pc \in {"resolved", "rejected"}
    /\ log' = IF pc = "rejected" THEN Append(log, Line("fatal", 0, 0, 0))
              ELSE log
    /\ exitCode' = IF pc = "rejected" THEN 1 ELSE 0
    /\ pc' = "exited"
    /\ UNCHANGED <<envVars, runVars, outDirs, outFiles, files, idx, generated,
                   errors, cur, fetchLog, fontFailed, attempts, threw,
                   hdrFailed, writes, written, discoveries, pureVars>>

\* line 374: main().catch(console.error): a rejection is logged, nothing sets
\* process.exitCode, and the process ends with exit code 0
ProcessExit ==
    /\ pc \in {"resolved", "rejected"}
    /\ log' = IF pc = "rejected" THEN Append(log, Line("fatal", 0, 0, 0))
              ELSE log
    /\ exitCode' = 0
    /\ pc' = "exited"
    /\ UNCHANGED <<envVars, runVars, outDirs, outFiles, files, idx, generated,
                   errors, cur, fetchLog, fontFailed, attempts, threw,
                   hdrFailed, writes, written, discoveries, pureVars>>

Next ==
    \/ Start
    \/ Discover
    \/ ReadFile
    \/ ParseHeader
    \/ Compose
    \/ FetchFont
    \/ RenderSvg
    \/ Rasterize
    \/ EnsureDir
    \/ WriteFile
    \/ LogSuccess
    \/ CatchError
    \/ Summary
    \/ ProcessExit

Spec == Init /\ [][Next]_vars

\* an empty OUTPUT_DIR or none; every file holds a document with both keys,
\* one with a numeric title or one whose header does not parse; every step
\* that does I/O may fail
LiveInit ==
    /\ InitDisk
    /\ stale = {}
    /\ docs = [f \in tree |-> {FullDoc, NumTitleDoc, MalformedDoc}]
    /\ mayFail = Steps
    /\ InitProcess

\* the process is not stopped from outside and every call it makes returns
\* or throws: it takes its next step as long as it has one
SpecLive == LiveInit /\ [][Next]_vars /\ WF_vars(Next)

----------------------------------------------------------------------------
(* The script run twice over unchanged documents, with no I/O failing *)

\* every file holds one content, and no step fails for outside reasons
RebuildInit ==
    /\ InitDisk
    /\ docs \in [tree -> { {c} : c \in DocContents }]
    /\ mayFail = {}
    /\ InitProcess

\* the script is started again after its first run has ended: a new process
\* calls main() (line 374) on the disk the first run left; the unchanged tree
\* will be listed as before (files)
Rerun ==
    /\ pc = "exited"
    /\ run = 1
    /\ run' = 2
    /\ first' = [outFiles |-> outFiles, outDirs |-> outDirs, log |-> log]
    /\ pc' = "start"
    /\ idx' = 0
    /\ generated' = 0
    /\ errors' = 0
    /\ cur' = NoCur
    /\ log' = <<>>
    /\ exitCode' = -1
    /\ fetchLog' = <<>>
    /\ fontFailed' = FALSE
    /\ attempts' = <<>>
    /\ threw' = {}
    /\ hdrFailed' = {}
    /\ writes' = <<>>
    /\ written' = {}
    /\ discoveries' = 0
    /\ UNCHANGED <<envVars, outDirs, outFiles, files, pureVars>>

RebuildNext == Next \/ Rerun

SpecRebuild == RebuildInit /\ [][RebuildNext]_vars

----------------------------------------------------------------------------
(* truncate alone: every text and budget within the bounds *)

\* the strings of at most n characters over "a" and "."
RECURSIVE Texts(_)
Texts(n) ==
    IF n = 0 THEN {<<>>}
    ELSE Texts(n - 1) \cup
         { Append(s, c) : s \in { u \in Texts(n - 1) : Len(u) = n - 1 },
                          c \in {"a", "."} }

\* the batch does not run while truncate is exercised
BatchIdle ==
    /\ rootExists = FALSE
    /\ tree = {}
    /\ docs = <<>>
    /\ stale = {}
    /\ mayFail = {}
    /\ outDirs = {}
    /\ outFiles = {}
    /\ ProcessAt("idle")

TruncInit ==
    /\ BatchIdle
    /\ SlugIdle
    /\ TmplIdle
    /\ tText \in Texts(MaxLen)
    /\ tMax \in 0..MaxBudget
    /\ tOut = <<>>
    /\ tAgain = <<>>
    /\ tpc = "call"

\* a call of truncate(text, maxLength), lines 73-76
CallTruncate ==
    /\ tpc = "call"
    /\ tOut' = truncate(tText, tMax)
    /\ tpc' = "ret"
    /\ UNCHANGED <<tText, tMax, tAgain, batchVars, slugVars, tmplVars>>

\* a call of truncate on the value the first call returned, same budget
CallTruncateAgain ==
    /\ tpc = "ret"
    /\ tAgain' = truncate(tOut, tMax)
    /\ tpc' = "ret2"
    /\ UNCHANGED <<tText, tMax, tOut, batchVars, slugVars, tmplVars>>

TruncNext == CallTruncate \/ CallTruncateAgain

SpecTruncate == TruncInit /\ [][TruncNext]_vars

----------------------------------------------------------------------------
(* findMarkdownFiles alone: trees with other files and a directory named *.md *)

TXT == <<"n", ".", "t", "x", "t">>

DMD == <<"d", ".", "m", "d">>

\* the files a tree handed to findMarkdownFiles is made of: q.md, q.mdx,
\* n.txt, qmd, g-s/q.md, d.md/n.txt and d.md/g-s/q.mdx
WalkCandidates ==
    { <<<<"q", ".", "m", "d">>>>,
      <<<<"q", ".", "m", "d", "x">>>>,
      <<TXT>>,
      <<<<"q", "m", "d">>>>,
      <<<<"g", "-", "s">>, <<"q", ".", "m", "d">>>>,
      <<DMD, TXT>>,
      <<DMD, <<"g", "-", "s">>, <<"q", ".", "m", "d", "x">>>> }

WalkTrees == { t \in SUBSET WalkCandidates : Cardinality(t) <= MaxEntries }

WalkInit ==
    /\ rootExists = TRUE
    /\ tree \in WalkTrees
    /\ docs = <<>>
    /\ stale = {}
    /\ mayFail = {}
    /\ outDirs = {}
    /\ outFiles = {}
    /\ ProcessAt("walk")
    /\ PureIdle

\* a call of findMarkdownFiles(CONTENT_DIR), lines 42-57
CallFindMarkdownFiles ==
    /\ pc = "walk"
    /\ \E fs \in findMarkdownFiles(<<>>, <<>>) : files' = fs
    /\ pc' = "walked"
    /\ UNCHANGED <<envVars, runVars, outDirs, outFiles, idx, generated,
                   errors, cur, log, exitCode, fetchLog, fontFailed, attempts,
                   threw, hdrFailed, writes, written, discoveries, pureVars>>

WalkNext == CallFindMarkdownFiles

SpecWalk == WalkInit /\ [][WalkNext]_vars

----------------------------------------------------------------------------
(* getSlug and getSection alone: files at every depth within the bound *)

\* the deepest file has MaxDirs directories above it
MaxDirs == 2

REINDEX == <<"r", "e", "i", "n", "d", "e", "x">>

\* directory names: g-s-x, index and e
SlugDirNames == { <<"g", "-", "s", "-", "x">>, INDEX, <<"e">> }

\* file names: index.md, index.mdx, q.md and reindex.md
SlugFileNames == { IndexMd, INDEX \o MDX, <<"q", ".", "m", "d">>, REINDEX \o MD }

\* the sequences of at most n directory names
RECURSIVE DirChains(_)
DirChains(n) ==
    IF n = 0 THEN {<<>>}
    ELSE DirChains(n - 1) \cup
         { Append(d, x) : d \in { c \in DirChains(n - 1) : Len(c) = n - 1 },
                          x \in SlugDirNames }

\* the markdown files main may hand to getSlug
SlugPaths == { Append(d, f) : d \in DirChains(MaxDirs), f \in SlugFileNames }

SlugInit ==
    /\ BatchIdle
    /\ TruncIdle
    /\ TmplIdle
    /\ gPath \in SlugPaths
    /\ gSlug = <<>>
    /\ gSection = Undefined
    /\ gpc = "call"

\* const slug = getSlug(file), line 349
CallGetSlug ==
    /\ gpc = "call"
    /\ gSlug' = getSlug(gPath)
    /\ gpc' = "slug"
    /\ UNCHANGED <<gPath, gSection, batchVars, truncVars, tmplVars>>

\* const section = getSection(slug), line 352
CallGetSection ==
    /\ gpc = "slug"
    /\ gSection' = getSection(gSlug)
    /\ gpc' = "section"
    /\ UNCHANGED <<gPath, gSlug, batchVars, truncVars, tmplVars>>

SlugNext == CallGetSlug \/ CallGetSection

SpecSlug == SlugInit /\ [][SlugNext]_vars

----------------------------------------------------------------------------
(* createImageTemplate alone: titles and descriptions around the budgets *)

\* the longest title
MaxTitle == 62

\* the longest description
MaxDesc == 122

\* the text of n characters a b c d e f g a b ...
TextOfLen(n) ==
    [k \in 1..n |-> <<"a", "b", "c", "d", "e", "f", "g">>[((k - 1) % 7) + 1]]

\* titles of every length up to MaxTitle
Titles == { Str(TextOfLen(n)) : n \in 0..MaxTitle }

\* the empty description and the descriptions of the five greatest lengths
Descriptions == { Str(TextOfLen(n)) : n \in {0} \cup (MaxDesc - 4)..MaxDesc }

\* what getSection returns, and the empty string
Sections == { Null, Str(<<>>), Str(<<"g", " ", "s">>) }

TmplInit ==
    /\ BatchIdle
    /\ TruncIdle
    /\ SlugIdle
    /\ cTitle \in Titles
    /\ cDescription \in Descriptions
    /\ cSection \in Sections
    /\ cTree = NoTemplate
    /\ cpc = "call"

\* const template = createImageTemplate(title, description, section), line 359
CallCreateImageTemplate ==
    /\ cpc = "call"
    /\ cTree' = createImageTemplate(cTitle, cDescription, cSection)
    /\ cpc' = "ret"
    /\ UNCHANGED <<cTitle, cDescription, cSection, batchVars, truncVars,
                   slugVars>>

TmplNext == CallCreateImageTemplate

SpecTemplate == TmplInit /\ [][TmplNext]_vars

----------------------------------------------------------------------------
(* What the claims speak of *)

\* the positions of the console lines of one kind
LinesOf(kind) == { k \in 1..Len(log) : log[k].kind = kind }

\* findMarkdownFiles(CONTENT_DIR) has returned: line 339 has printed the count
DiscoveryDone == rootExists /\ discoveries > 0 /\ LinesOf("found") # {}

\* findMarkdownFiles(CONTENT_DIR) has thrown
DiscoveryThrew ==
    discoveries > 0 /\ LinesOf("found") = {} /\ pc \in {"rejected", "exited"}

\* the positions of the success and error lines of iteration i
DocLines(i) ==
    { k \in 1..Len(log) : log[k].doc = i /\ log[k].kind \in {"ok", "err"} }

\* the iterations logged as success, and those logged as error
OkDocs == { log[k].doc : k \in LinesOf("ok") }

ErrDocs == { log[k].doc : k \in LinesOf("err") }

\* iteration i has left the loop body
Finished(i) == i < idx \/ (i = idx /\ pc \in {"loop", "resolved", "exited"})

\* the first k characters of s (none for k <= 0)
FirstChars(s, k) ==
    IF k <= 0 THEN <<>> ELSE SubSeq(s, 1, IF k > Len(s) THEN Len(s) ELSE k)

\* the slug of every discovered document
Slugs == [i \in 1..Len(files) |-> getSlug(files[i])]

\* two slugs are equal, or are the empty slug and 'index'
Collide(s, t) == s = t \/ {s, t} = {<<>>, INDEX}

\* no two discovered documents have colliding slugs
NoCollision ==
    LET s == Slugs
    IN  \A i, j \in 1..Len(files) : i < j => ~Collide(s[i], s[j])

\* files as paths and bytes, whichever iteration wrote them
Content(fs) ==
    { [path |-> f.path, image |-> f.image, complete |-> f.complete] :
        f \in fs }

\* the files fs after the writeFileSync call recorded as w
ApplyWrite(fs, w) ==
    IF w.result = "unchanged" THEN fs
    ELSE { g \in fs : g.path # w.path } \cup
         { [path |-> w.path, image |-> w.image, complete |-> w.result = "ok"] }

\* the files fs after the writeFileSync calls ws, in that order
RECURSIVE FinalFiles(_, _)
FinalFiles(fs, ws) ==
    IF ws = <<>> THEN fs
    ELSE FinalFiles(ApplyWrite(fs, Head(ws)), Tail(ws))

\* the writeFileSync calls of this run, each document with the outcome it
\* had, as a run issues them that discovers the documents in the order fs2
\* (from position j on)
RECURSIVE WritesInOrder(_, _)
WritesInOrder(fs2, j) ==
    IF j > Len(fs2) THEN <<>>
    ELSE LET ks == { k \in 1..Len(writes) : files[writes[k].doc] = fs2[j] }
         IN  (IF ks = {} THEN <<>> ELSE <<writes[CHOOSE k \in ks : TRUE]>>)
                 \o WritesInOrder(fs2, j + 1)

\* the summary line of lines 370-371 has been printed
SummaryReported == LinesOf("summary") # {}

\* the iteration in progress has passed lines 349-359, or raised in them
Composed == cur.outputPath # <<>>

----------------------------------------------------------------------------
(* The claims *)

\* C1 (batch resilience): of N discovered documents of which k raised an
\* exception at some stage, every one is attempted; a summary line is only
\* printed once all N have been processed and it shows generated = N - k and
\* errors = k; a run whose discovery succeeded ends with that summary line.
C1_BatchResilience ==
    /\ threw \subseteq 1..Len(files)
    /\ \A k \in LinesOf("summary") :
          /\ idx = Len(files)
          /\ \A i \in 1..Len(files) : attempts[i] >= 1 /\ Finished(i)
          /\ log[k].a = Len(files) - Cardinality(threw)
          /\ log[k].b = Cardinality(threw)
    /\ (pc = "exited" /\ DiscoveryDone) => LinesOf("summary") # {}

\* C1 witness: a finished run over at least two documents of which exactly
\* one raised an exception
C1_Witness ==
    /\ pc = "exited"
    /\ Len(files) >= 2
    /\ Cardinality(threw) = 1
    /\ generated = Len(files) - 1
    /\ errors = 1

\* C2 (malformed header is not an error), the claim as stated: a document
\* whose header fails to parse gets no error line, and once it has been
\* processed it has a success line and a written image.
C2_MalformedHeaderIsNotAnError ==
    \A i \in hdrFailed :
        /\ i \notin ErrDocs
        /\ Finished(i) => (i \in OkDocs /\ i \in written)

\* C3 (fetch-once font), the claim as stated: the font is fetched at most
\* once in a run, and never during the iteration of a document.
C3_FetchOnce ==
    /\ Len(fetchLog) <= 1
    /\ \A k \in 1..Len(fetchLog) : fetchLog[k] = 0

\* C4 (a failing font fetch is fatal and pre-batch), the claim as stated:
\* when the font fetch has failed no document has been read, no error is
\* counted for a document and no image is written.
C4_FontFailureIsPreBatch ==
    fontFailed =>
        /\ idx = 0
        /\ errors = 0
        /\ ErrDocs = {}
        /\ writes = <<>>

\* C5 (a missing content root is fatal and pre-batch): without a content root
\* discovery is tried once and rejects main(); no document is read, composed,
\* rendered or written, no success, error or summary line is printed.
C5_MissingRootIsFatal ==
    ~rootExists =>
        /\ discoveries <= 1
        /\ discoveries = 1 => pc \in {"rejected", "exited"}
        /\ files = <<>> /\ idx = 0 /\ attempts = <<>>
        /\ cur = NoCur
        /\ fetchLog = <<>> /\ writes = <<>> /\ outFiles = stale
        /\ generated = 0 /\ errors = 0
        /\ LinesOf("ok") = {} /\ LinesOf("err") = {}
        /\ LinesOf("found") = {} /\ LinesOf("summary") = {}

\* C5 witness: a run without a content root that has ended
C5_Witness == ~rootExists /\ discoveries = 1 /\ pc = "exited"

\* C6 (distinct output paths), the claim as stated: any two distinct
\* discovered documents have distinct output paths, and no output path is
\* written twice in a run.
C6_DistinctOutputPaths ==
    /\ \A i, j \in 1..Len(files) :
          i # j => OutputPathOf(i) # OutputPathOf(j)
    /\ \A k, l \in 1..Len(writes) :
          k # l => writes[k].path # writes[l].path

\* C6 as amended: two distinct discovered documents have the same output path
\* exactly when their slugs are equal or are the empty slug and 'index'; in
\* a run without such a pair no output path is written twice. (files is
\* assigned once, at line 338: the pairs are compared when the loop is about
\* to start.)
C6_DistinctUnlessSlugsCollide ==
    LET s == Slugs
    IN  /\ (pc = "loop" /\ idx = 0) =>
              \A i, j \in 1..Len(files) :
                  i < j => (outputFileName(s[i]) = outputFileName(s[j])
                              <=> Collide(s[i], s[j]))
        /\ (Len(writes) >= 2 /\ NoCollision)
              => \A k, l \in 1..Len(writes) :
                    k < l => writes[k].path # writes[l].path

\* C6 witness: a run that wrote the images of two documents of different
\* slugs, one of them in a subdirectory
C6_Witness ==
    /\ Len(writes) >= 2
    /\ NoCollision
    /\ \E k \in 1..Len(writes) : Dirname(writes[k].path) # <<>>

\* C7 (one attempt and one log line per document): once discovery succeeded
\* no document is attempted twice or has two lines; a document that has left
\* the loop body was attempted once and has exactly one line, success or
\* error; main() only resolves after the last document.
C7_OneAttemptOneLine ==
    DiscoveryDone =>
        /\ \A i \in 1..Len(files) :
              /\ attempts[i] <= 1
              /\ Cardinality(DocLines(i)) <= 1
              /\ Finished(i) =>
                    (attempts[i] = 1 /\ Cardinality(DocLines(i)) = 1)
        /\ pc \in {"resolved", "exited"} => idx = Len(files)

\* C7 witness: a finished run with a success line and an error line
C7_Witness ==
    /\ pc = "exited"
    /\ Len(files) >= 2
    /\ OkDocs # {}
    /\ ErrDocs # {}

\* C8 (success implies a written file): generated counts the success lines,
\* and every document with a success line had its writeFileSync return and
\* has a file written in this run at its output path.
C8_SuccessImpliesWrittenFile ==
    /\ generated = Cardinality(LinesOf("ok"))
    /\ \A i \in OkDocs :
          /\ i \in written
          /\ \E f \in outFiles : f.path = OutputPathOf(i) /\ f.doc # 0

\* C8 witness: a document has been counted in generated
C8_Witness == generated >= 1 /\ OkDocs # {}

\* C9 (exit code independent of per-document errors): a run whose discovery
\* succeeded ends with exit code 0 whatever errors is; the failures show in
\* the error lines and in the summary line.
C9_ExitCodeZero ==
    (pc = "exited" /\ DiscoveryDone) =>
        /\ exitCode = 0
        /\ errors = Cardinality(LinesOf("err"))
        /\ \E k \in LinesOf("summary") : log[k].b = errors

\* C9 witness: a finished run in which every document failed
C9_Witness ==
    /\ pc = "exited"
    /\ Len(files) >= 2
    /\ errors = Len(files)
    /\ exitCode = 0

\* C10 (truncation rule), the claim as stated: truncate returns text when
\* text.length <= max and the first max-3 characters of text followed by
\* "..." when text.length > max, for every budget.
C10_TruncationRule ==
    tpc = "ret" =>
        /\ Len(tText) <= tMax => tOut = tText
        /\ Len(tText) > tMax => tOut = FirstChars(tText, tMax - 3) \o Ellipsis

\* C10 as amended: truncate returns text when text.length <= max; when
\* text.length > max it returns, followed by "...", the first max-3
\* characters of text for max >= 3 and text without its last 3-max
\* characters for max < 3.
C10_TruncationRuleFromThree ==
    tpc = "ret" =>
        /\ Len(tText) <= tMax => tOut = tText
        /\ (Len(tText) > tMax /\ tMax >= 3) =>
              tOut = FirstChars(tText, tMax - 3) \o Ellipsis
        /\ (Len(tText) > tMax /\ tMax < 3) =>
              tOut = FirstChars(tText, Len(tText) - (3 - tMax)) \o Ellipsis

\* C10 witness: a text longer than a budget of at least 4 was truncated
C10_Witness ==
    /\ tpc = "ret"
    /\ tMax >= 4
    /\ Len(tText) > tMax
    /\ Len(tOut) = tMax

\* C11 (truncation idempotence): for a budget of at least 3, truncate applied
\* to a value truncate returned for the same budget returns that value.
C11_TruncateIdempotent ==
    (tpc = "ret2" /\ tMax >= 3) => tAgain = tOut

\* C11 witness: a text longer than a budget of at least 4 was truncated, and
\* the truncated text was handed to truncate again
C11_Witness ==
    /\ tpc = "ret2"
    /\ tMax >= 4
    /\ Len(tText) > tMax
    /\ tOut # tText
    /\ tAgain = tOut

\* C12 (output file name): every image is written to <slug>.png under
\* OUTPUT_DIR when the document's slug is not empty and to index.png when it
\* is; index.md and index.mdx directly under CONTENT_DIR have the empty slug
\* and the name index.png; no image is written to an empty name or to '.png'.
C12_OutputFileName ==
    /\ \A k \in 1..Len(writes) :
          LET filePath == files[writes[k].doc]
              slug == getSlug(filePath)
          IN  /\ slug # <<>> => writes[k].path = slug \o PNG
              /\ slug = <<>> => writes[k].path = INDEX \o PNG
              /\ filePath = <<IndexMd>> => slug = <<>>
              /\ writes[k].path \notin {<<>>, PNG}
    /\ \A f \in outFiles : f.path \notin {<<>>, PNG}
    /\ \A name \in {IndexMd, INDEX \o MDX} :
          /\ getSlug(<<name>>) = <<>>
          /\ outputFileName(getSlug(<<name>>)) = INDEX \o PNG

\* C12 witness: the images of index.md and of a document with a slug were
\* written
C12_Witness ==
    /\ \E k \in 1..Len(writes) :
          /\ files[writes[k].doc] = <<IndexMd>>
          /\ writes[k].path = INDEX \o PNG
          /\ writes[k].result = "ok"
    /\ \E k \in 1..Len(writes) :
          /\ getSlug(files[writes[k].doc]) # <<>>
          /\ writes[k].result = "ok"

\* C13 (fallback completeness): a document without a header block, or whose
\* header lacks the title or the description key, is composed with the
\* default title or the default description; the title and the description
\* handed to createImageTemplate are never undefined, null or ''.
C13_FallbackCompleteness ==
    Composed =>
        /\ (cur.content.hdr = "none" \/ cur.content.title = Undefined)
              => cur.title = Str(DefaultTitle)
        /\ (cur.content.hdr = "none" \/ cur.content.description = Undefined)
              => cur.description = Str(DefaultDescription)
        /\ cur.title \notin {Undefined, Null, Str(<<>>)}
        /\ cur.description \notin {Undefined, Null, Str(<<>>)}

\* C13 witness: a document whose header has no title key and an empty
\* description was composed with both defaults
C13_Witness ==
    /\ Composed
    /\ cur.content = NoTitleDoc
    /\ cur.title = Str(DefaultTitle)
    /\ cur.description = Str(DefaultDescription)
    /\ pc = "fetch"

\* C14 (discovery result): findMarkdownFiles returns the files of the tree,
\* at any depth, whose name ends in .md or .mdx, each once, and nothing else:
\* no directory and no file of another name.
C14_DiscoveryResult ==
    pc = "walked" =>
        /\ { files[i] : i \in 1..Len(files) } =
              { p \in tree : \/ EndsWith(p[Len(p)], MD)
                             \/ EndsWith(p[Len(p)], MDX) }
        /\ \A i, j \in 1..Len(files) : i < j => files[i] # files[j]
        /\ \A i \in 1..Len(files) : ~IsDirectory(files[i])

\* C14 witness: a tree with a file of another extension and a directory named
\* d.md was walked, and the markdown file three levels down was found
C14_Witness ==
    /\ pc = "walked"
    /\ <<TXT>> \in tree
    /\ \E i \in 1..Len(files) : Len(files[i]) = 3 /\ files[i][1] = DMD
    /\ Len(files) >= 2
    /\ Len(files) < Cardinality(tree)

\* C15 (order independence), the claim as stated: whatever order discovery
\* lists the documents in, a run in which every document has the outcome it
\* had in this run ends with the files (paths and bytes) this run ended with
\* and with the same counts.
C15_OrderIndependence ==
    (pc = "exited" /\ DiscoveryDone) =>
        /\ generated = Cardinality(written)
        /\ errors = Cardinality(threw)
        /\ \A fs2 \in findMarkdownFiles(<<>>, <<>>) :
              FinalFiles(Content(stale), WritesInOrder(fs2, 1))
                  = Content(outFiles)

\* C15 as amended: the same, for runs in which no two discovered documents
\* have colliding slugs.
C15_OrderIndependentUnlessSlugsCollide ==
    (pc = "exited" /\ DiscoveryDone /\ NoCollision) =>
        /\ generated = Cardinality(written)
        /\ errors = Cardinality(threw)
        /\ \A fs2 \in findMarkdownFiles(<<>>, <<>>) :
              FinalFiles(Content(stale), WritesInOrder(fs2, 1))
                  = Content(outFiles)

\* C15 witness: a finished run over two documents of different slugs that
\* could have been listed in another order, both written, with different
\* images
C15_Witness ==
    /\ pc = "exited"
    /\ DiscoveryDone
    /\ NoCollision
    /\ Cardinality(findMarkdownFiles(<<>>, <<>>)) >= 2
    /\ Len(writes) = 2
    /\ writes[1].result = "ok" /\ writes[2].result = "ok"
    /\ writes[1].image # writes[2].image

\* C16 (output fully regenerated), the claim as stated: after a completed
\* run every file under OUTPUT_DIR was written during that run.
C16_FullyRegenerated ==
    (pc = "exited" /\ DiscoveryDone) => \A f \in outFiles : f.doc # 0

\* C16 as amended: every document with a success line has at its output path
\* a file written during this run; a file that was there before the run is
\* still there, unchanged, unless a writeFileSync of this run touched its
\* path, and every file not written during this run was there before it.
C16_RegeneratedOrUntouched ==
    /\ \A i \in OkDocs :
          \E f \in outFiles : f.path = writes[CHOOSE k \in 1..Len(writes) :
                                                 writes[k].doc = i].path
                               /\ f.doc \in 1..Len(files)
    /\ \A f \in stale :
          (\A k \in 1..Len(writes) :
              writes[k].path # f.path \/ writes[k].result = "unchanged")
          => f \in outFiles
    /\ \A f \in outFiles : f.doc = 0 => f \in stale

\* C16 witness: a completed run that overwrote q.png of an earlier run and
\* left o.png of that run in place
C16_Witness ==
    /\ pc = "exited"
    /\ DiscoveryDone
    /\ stale = StaleFiles
    /\ \E f \in outFiles : f.doc = 0 /\ f.path = <<"o">> \o PNG
    /\ \E f \in outFiles : f.doc >= 1 /\ f.path = <<"q">> \o PNG

\* C17 (idempotent rebuild): a second run over unchanged documents, with
\* nothing failing for outside reasons, ends with the files (paths and bytes)
\* and directories the first run left and prints the lines the first run
\* printed, the summary among them; no path holds two files.
C17_IdempotentRebuild ==
    (run = 2 /\ pc = "exited") =>
        /\ Content(outFiles) = Content(first.outFiles)
        /\ outDirs = first.outDirs
        /\ log = first.log
        /\ \A f, g \in outFiles : f.path = g.path => f = g

\* C17 witness: a second run has ended that wrote an image again, over the
\* file the first run left, and counted a failed document again
C17_Witness ==
    /\ run = 2
    /\ pc = "exited"
    /\ Len(files) = 2
    /\ generated = 1
    /\ errors = 1
    /\ writes # <<>>
    /\ \E f \in first.outFiles : f.path = writes[1].path
    /\ Content(outFiles) = Content(first.outFiles)

\* C18 (no partial-file corruption), the claim as stated: no output path
\* ever holds an incomplete file; after a failed write it holds what it held
\* before or the complete new image.
C18_NoPartialFile == \A f \in outFiles : f.complete

\* C19 (composition is total), the claim as stated: for a document whose
\* header parsed, lines 349-359 raise no exception.
C19_CompositionIsTotal == cur.threwAt # "compose"

\* C20 (termination), the claim as stated: when CONTENT_DIR exists and every
\* call returns or throws, the summary line is eventually printed.
C20_Termination == rootExists => <>SummaryReported

\* C20 as amended: once findMarkdownFiles(CONTENT_DIR) has returned the
\* summary line is eventually printed, and every run ends.
C20_TerminationAfterDiscovery ==
    /\ DiscoveryDone ~> SummaryReported
    /\ <>(pc = "exited")

\* C20 witness: a run over two documents, one of which failed, has printed
\* its summary and ended
C20_Witness ==
    /\ pc = "exited"
    /\ DiscoveryDone
    /\ Len(files) = 2
    /\ errors = 1
    /\ SummaryReported

----------------------------------------------------------------------------
(* Slugs and sections of single files *)

\* the base name of a file: its last name without the markdown extension
BaseName(path) ==
    LET n == path[Len(path)]
    IN  IF EndsWith(n, MDX) THEN DropLast(n, 4) ELSE DropLast(n, 3)

\* the names a slug is made of when only a whole final segment 'index' is
\* dropped
SlugNames(path) ==
    IF BaseName(path) = INDEX THEN DropLast(path, 1)
    ELSE [path EXCEPT ![Len(path)] = BaseName(path)]

\* C21: getSlug drops a trailing 'index' only when it is the whole final
\* segment: dir/index.md gives 'dir', and a file whose base name merely ends
\* in the letters 'index' (guides/reindex.md) keeps its full base name.
C21_SegmentExact ==
    gpc \in {"slug", "section"} => gSlug = JoinNames(SlugNames(gPath))

\* the number of "/" in a string
Slashes(s) == Cardinality({ k \in 1..Len(s) : s[k] = "/" })

\* the characters of a string before its first "/"
FirstSegment(s) ==
    LET k == CHOOSE k \in 1..Len(s) :
                 s[k] = "/" /\ \A j \in 1..(k - 1) : s[j] # "/"
    IN  SubSeq(s, 1, k - 1)

\* C22: getSection(slug) is the first segment of the slug with every hyphen
\* turned into a space when the slug has two segments or more, and null when
\* it has one segment or is empty, as it is for the index page of a directory
\* directly under the content root.
C22_Section ==
    gpc = "section" =>
        /\ Slashes(gSlug) >= 1 =>
               /\ gSection.t = "str"
               /\ Len(gSection.s) = Len(FirstSegment(gSlug))
               /\ \A k \in 1..Len(gSection.s) :
                      /\ FirstSegment(gSlug)[k] = "-" => gSection.s[k] = " "
                      /\ FirstSegment(gSlug)[k] # "-" =>
                             gSection.s[k] = FirstSegment(gSlug)[k]
        /\ Slashes(gSlug) = 0 => gSection = Null
        /\ (Len(gPath) = 2 /\ BaseName(gPath) = INDEX) => gSection = Null
        /\ (Len(gPath) = 3 /\ gPath[1] = <<"e">>) =>
               gSection = Str(<<"e">>)

\* examples/versioning-like depth with a hyphenated first directory, and the
\* index page of a directory
C22_Witness ==
    /\ gpc = "section"
    /\ gPath = << <<"g", "-", "s", "-", "x">>, <<"e">>, <<"q", ".", "m", "d">> >>
    /\ gSection = Str(<<"g", " ", "s", " ", "x">>)

----------------------------------------------------------------------------
(* The composed tree *)

\* C26: for a string title and a string description the title leaf has at
\* most 60 characters and the description leaf at most 120; a title of more
\* than 60 characters appears as its first 57 followed by "...", a
\* description of more than 120 as its first 117 followed by "...".
C26_TextBudgets ==
    cpc = "ret" =>
        /\ Len(cTree.title) <= 60
        /\ Len(cTree.description) <= 120
        /\ Len(cTitle.s) > 60 =>
               cTree.title = SubSeq(cTitle.s, 1, 57) \o <<".", ".", ".">>
        /\ Len(cDescription.s) > 120 =>
               cTree.description =
                   SubSeq(cDescription.s, 1, 117) \o <<".", ".", ".">>

\* a title of 61 characters and a description of 121 have been cut
C26_Witness ==
    /\ cpc = "ret"
    /\ Len(cTitle.s) = 61
    /\ Len(cDescription.s) = 121
    /\ Len(cTree.title) = 60
    /\ Len(cTree.description) = 120

\* C27: the title leaf is set in 52px when the title as passed in has more
\* than 30 characters and in 64px when it has 30 or fewer; titles of 31 to 60
\* characters and titles of more than 60 both get 52px.
C27_TitleFontSize ==
    cpc = "ret" =>
        /\ Len(cTitle.s) > 30 => cTree.titleSize = 52
        /\ Len(cTitle.s) <= 30 => cTree.titleSize = 64

\* a title of 31 characters, shown whole, in the smaller size
C27_Witness ==
    /\ cpc = "ret"
    /\ Len(cTitle.s) = 31
    /\ cTree.title = cTitle.s
    /\ cTree.titleSize = 52

\* C28: the header row has exactly two children, the brand mark and then a
\* badge whose text is the section, when section is a non-empty string, and
\* exactly one child, the brand mark, when section is null or empty.
C28_SectionBadge ==
    cpc = "ret" =>
        /\ cTree.header[1] = Str(<<"L", "U", "M", "O", "S">>)
        /\ (cSection.t = "str" /\ cSection.s # <<>>) =>
               Len(cTree.header) = 2 /\ cTree.header[2] = cSection
        /\ (cSection = Null \/ cSection = Str(<<>>)) => Len(cTree.header) = 1

\* the empty section leaves the brand mark alone in the header
C28_Witness ==
    /\ cpc = "ret"
    /\ cSection = Str(<<>>)
    /\ cTree.header = <<Str(<<"L", "U", "M", "O", "S">>)>>

----------------------------------------------------------------------------
(* A discovery that throws *)

\* C29: when discovery throws, for a missing content root or for an entry
\* that cannot be listed or stat-ed, no document is processed and no summary
\* line is printed; the rejection of main() is logged and the process ends
\* with exit code 0; OUTPUT_DIR has been created before.
C29_FatalDiscoveryIsSilent ==
    DiscoveryThrew =>
        /\ <<>> \in outDirs
        /\ files = <<>> /\ idx = 0 /\ attempts = <<>>
        /\ cur = NoCur
        /\ fetchLog = <<>> /\ writes = <<>> /\ outFiles = stale
        /\ generated = 0 /\ errors = 0
        /\ LinesOf("ok") = {} /\ LinesOf("err") = {}
        /\ LinesOf("summary") = {}
        /\ pc = "exited" => (exitCode = 0 /\ LinesOf("fatal") # {})

\* a run over an existing root with documents whose discovery threw, ended,
\* with OUTPUT_DIR in place and nothing in it
C29_Witness ==
    /\ rootExists
    /\ tree # {}
    /\ DiscoveryThrew
    /\ pc = "exited"
    /\ exitCode = 0
    /\ first = NoFirst
    /\ stale = {}
    /\ <<>> \in outDirs

----------------------------------------------------------------------------
(* The stages of one document *)

\* the positions of the loop body in the order of lines 346-363: the header
\* is to be parsed, the template composed, the font fetched, the vector
\* rendered, the raster made, the directory ensured, the file written, the
\* success logged
StageOrder ==
    <<"parse", "compose", "fetch", "satori", "resvg", "mkdir", "write",
      "success">>

StageIndex(p) == CHOOSE k \in 1..Len(StageOrder) : StageOrder[k] = p

InBody(p) == \E k \in 1..Len(StageOrder) : StageOrder[k] = p

\* one step of the script seen from the document in progress
C23_Step ==
    /\ (pc = "loop" /\ idx' # idx) =>
           /\ idx' = idx + 1
           /\ pc' \in {"parse", "catch"}
    /\ (InBody(pc) /\ pc # "success") =>
           /\ idx' = idx
           /\ pc' = "catch" \/ pc' = StageOrder[StageIndex(pc) + 1]
    /\ pc = "success" =>
           /\ pc' = "loop" /\ idx' = idx
           /\ log' = Append(log, Line("ok", idx, 0, 0))
    /\ pc' = "catch" =>
           /\ cur'.threwAt # ""
           /\ idx' \in threw'
           /\ outDirs' = outDirs
           /\ pc # "write" => (outFiles' = outFiles /\ writes' = writes)
    /\ pc = "catch" =>
           /\ pc' = "loop" /\ idx' = idx
           /\ log' = Append(log, Line("err", idx, 0, 0))
           /\ outDirs' = outDirs /\ outFiles' = outFiles
           /\ writes' = writes /\ fetchLog' = fetchLog
    /\ outDirs' # outDirs => pc \in {"start", "mkdir"}
    /\ writes' # writes => pc = "write"
    /\ fetchLog' # fetchLog => pc = "fetch"

\* C23: the stages of a document run in the order read and parse, compose,
\* fetch and render, rasterize, ensure directory, write, each after the one
\* before it has returned; once a stage has thrown no later stage of the
\* document runs, neither the directory creation nor the write: the next
\* step is the error line, then the next document.
C23_StageOrder ==
    /\ [](cur.threwAt # "" => pc = "catch")
    /\ [](\A k \in 1..Len(writes) :
              writes[k].doc \in threw => writes[k].result # "ok")
    /\ [][C23_Step]_vars

\* the rasterizer has thrown for a document in a directory of its own: the
\* font was fetched for it, its directory does not exist, nothing was written
C23_Witness ==
    /\ pc = "catch"
    /\ cur.threwAt = "resvg"
    /\ \E k \in 1..Len(fetchLog) : fetchLog[k] = idx
    /\ Dirname(cur.outputPath) # <<>>
    /\ Dirname(cur.outputPath) \notin outDirs
    /\ \A k \in 1..Len(writes) : writes[k].doc # idx

----------------------------------------------------------------------------
(* One document at a time *)

\* C24: at every moment at most one document is in flight: the documents
\* before it have each logged success or error, the documents after it have
\* not been started, and the font fetches and the writes are issued in the
\* order of the documents, one document's before the next one's.
C24_Sequential ==
    /\ (cur # NoCur) => (idx >= 1 /\ (InBody(pc) \/ pc = "catch"))
    /\ \A i \in 1..Len(files) :
          /\ i < idx => Cardinality(DocLines(i)) = 1
          /\ (i = idx /\ (InBody(pc) \/ pc = "catch")) => DocLines(i) = {}
          /\ i > idx =>
                 /\ attempts[i] = 0
                 /\ DocLines(i) = {}
                 /\ \A k \in 1..Len(fetchLog) : fetchLog[k] # i
                 /\ \A k \in 1..Len(writes) : writes[k].doc # i
    /\ \A k, l \in 1..Len(fetchLog) : k < l => fetchLog[k] < fetchLog[l]
    /\ \A k, l \in 1..Len(writes) : k < l => writes[k].doc < writes[l].doc
    /\ \A k \in 1..Len(log) :
          log[k].kind \in {"ok", "err"} =>
              \A l \in 1..(k - 1) : log[l].doc < log[k].doc

\* the second document is about to be written after the first was logged
\* and both had their font fetched
C24_Witness ==
    /\ pc = "write"
    /\ idx = 2
    /\ DocLines(1) # {}
    /\ fetchLog = <<1, 2>>

----------------------------------------------------------------------------
(* Two documents, one output path *)

\* documents i < j are logged as success and have the same output path, which
\* no later document has
CollidingPair(i, j) ==
    /\ i < j
    /\ {i, j} \subseteq OkDocs
    /\ OutputPathOf(i) = OutputPathOf(j)
    /\ \A k \in (j + 1)..Len(files) : OutputPathOf(k) # OutputPathOf(j)

\* C25: when two discovered documents map to the same output path and both
\* succeed, both are counted in generated and logged as success, and at the
\* end of the run the file at that path holds the image of the document
\* processed later.
C25_LastWriteWins ==
    pc = "exited" =>
        \A i, j \in 1..Len(files) :
            CollidingPair(i, j) =>
                /\ Cardinality(DocLines(i)) = 1
                /\ Cardinality(DocLines(j)) = 1
                /\ generated = Cardinality(OkDocs)
                /\ \E k \in 1..Len(writes) :
                       /\ writes[k].doc = j
                       /\ \A f \in outFiles :
                              f.path = OutputPathOf(j) =>
                                  /\ f.doc = j
                                  /\ f.image = writes[k].image
                                  /\ f.complete
                /\ \E f \in outFiles : f.path = OutputPathOf(j)

\* a finished run in which two documents with different titles were both
\* written to the path an earlier run had left a file at
C25_Witness ==
    /\ pc = "exited"
    /\ stale # {}
    /\ generated = 2
    /\ CollidingPair(1, 2)
    /\ \E g \in stale : g.path = OutputPathOf(1)
    /\ writes[1].image # writes[2].image

----------------------------------------------------------------------------
(* What one document's processing touches *)

\* the paths of a set of files
Paths(fs) == { f.path : f \in fs }

\* one step of the processing of a document, from the read to the success or
\* error line
C30_Step ==
    (idx' >= 1 /\ (pc = "loop" \/ InBody(pc) \/ pc = "catch")) =>
        /\ outDirs \subseteq outDirs'
        /\ outDirs' # outDirs =>
               (outDirs' \ outDirs) \subseteq
                   Ancestors(Dirname(OutputPathOf(idx')))
        /\ Paths(outFiles) \subseteq Paths(outFiles')
        /\ outFiles' # outFiles =>
               /\ \A f \in outFiles :
                      f.path # OutputPathOf(idx') => f \in outFiles'
               /\ \A f \in outFiles' \ outFiles :
                      f.path = OutputPathOf(idx')
        /\ pc # "write" => outFiles' = outFiles

\* C30: processing a document creates at most the ancestor directories of its
\* own output path and writes at most the file at its own output path; it
\* deletes nothing and leaves every other file under OUTPUT_DIR as it was, and
\* a document that fails before the write stage leaves what was at its own
\* output path as it was.
C30_Frame == [][C30_Step]_vars

\* a document has replaced the file an earlier run left at its output path,
\* the other file of that run is as it was
C30_Witness ==
    /\ pc = "success"
    /\ stale # {}
    /\ \E g \in stale : g.path = cur.outputPath
    /\ \E f \in outFiles : f.path = cur.outputPath /\ f.doc = idx
    /\ \E g \in stale : g.path # cur.outputPath /\ g \in outFiles

====
